---- MODULE Spec2Model ----
(***************************************************************************)
(* Model of wav-files-echo (src/src/main.rs): the two effect engines       *)
(* apply_delay_effect (echo / reverb) and apply_chorus_effect, stepped one *)
(* loop iteration per action, and the batch driver main / process_file.    *)
(*                                                                         *)
(* Sample values and parameters are f32 in the source.  They are modelled  *)
(* as exact finite decimals (sign, arbitrary-size mantissa, power of ten): *)
(* every constant of the code (0.5, 0.3, 1000.0, 16000) and every input    *)
(* drawn here is a finite decimal, and +, -, * keep finite decimals, so    *)
(* the arithmetic below is the real-number value of the f32 expression     *)
(* without its rounding.  powf and sin are evaluated on the arguments      *)
(* where their value is known (see Pow10Half and SinQ).  Non-finite        *)
(* parameters (NaN, infinities) are outside the model.                     *)
(***************************************************************************)
EXTENDS Integers, Sequences, FiniteSets, TLC

(***************************************************************************)
(* Natural numbers of any size: little-endian sequences of limbs in        *)
(* 0..Base-1 with no leading zero limb; <<>> is zero.  The operations are  *)
(* written limb by limb in closed form (carries by look-ahead) so that     *)
(* their evaluation does not nest with the size of the numbers; numbers of *)
(* at most two limbs are handled as plain integers.                        *)
(***************************************************************************)
Base == 10^4

\* limb k of a, 0 beyond its length
Limb(a, k) == IF k >= 1 /\ k <= Len(a) THEN a[k] ELSE 0

\* a without leading zero limbs
NatNorm(a) ==
    LET nz == {k \in 1..Len(a) : a[k] # 0}
    IN  IF nz = {} THEN <<>>
        ELSE SubSeq(a, 1, CHOOSE k \in nz : \A j \in nz : j <= k)

\* an integer 0 <= n < 2^31
NatFromInt(n) ==
    IF n = 0 THEN <<>>
    ELSE IF n < Base THEN <<n>>
    ELSE IF n < Base * Base THEN <<n % Base, n \div Base>>
    ELSE <<n % Base, (n \div Base) % Base, n \div (Base * Base)>>

\* a number below 2^31
NatToInt(a) == Limb(a, 1) + Base * Limb(a, 2) + Base * Base * Limb(a, 3)

NatAdd(a, b) ==
    LET n == IF Len(a) < Len(b) THEN Len(b) ELSE Len(a)
        s(k) == Limb(a, k) + Limb(b, k)
        carry(k) ==
            IF \E j \in 1..k - 1 : s(j) >= Base /\ \A l \in j + 1..k - 1 : s(l) = Base - 1
            THEN 1 ELSE 0
    IN  IF n <= 2 THEN NatFromInt(NatToInt(a) + NatToInt(b))
        ELSE NatNorm([k \in 1..n + 1 |-> (s(k) + carry(k)) % Base])

\* a - b for a >= b
NatSub(a, b) ==
    LET d(k) == Limb(a, k) - Limb(b, k)
        borrow(k) ==
            IF \E j \in 1..k - 1 : d(j) < 0 /\ \A l \in j + 1..k - 1 : d(l) = 0
            THEN 1 ELSE 0
    IN  IF Len(a) <= 2 THEN NatFromInt(NatToInt(a) - NatToInt(b))
        ELSE NatNorm([k \in 1..Len(a) |-> (d(k) - borrow(k)) % Base])

\* -1, 0, 1 as a < b, a = b, a > b
NatCmp(a, b) ==
    IF Len(a) < Len(b) THEN -1
    ELSE IF Len(a) > Len(b) THEN 1
    ELSE IF a = b THEN 0
    ELSE LET k == CHOOSE j \in 1..Len(a) :
                      a[j] # b[j] /\ \A l \in j + 1..Len(a) : a[l] = b[l]
         IN  IF a[k] < b[k] THEN -1 ELSE 1

\* q[lo] + ... + q[hi]
RECURSIVE SumSeq(_, _, _)
SumSeq(q, lo, hi) ==
    IF lo > hi THEN 0
    ELSE IF lo = hi THEN q[lo]
    ELSE LET mid == (lo + hi) \div 2
         IN  SumSeq(q, lo, mid) + SumSeq(q, mid + 1, hi)

\* the column sums of the schoolbook product, each split into three limbs, added up
NatMul(a, b) ==
    IF a = <<>> \/ b = <<>> THEN <<>>
    ELSE IF Len(a) = 1 /\ Len(b) = 1 THEN NatFromInt(a[1] * b[1])
    ELSE LET n == Len(a) + Len(b) - 1
             col == [t \in 1..n |->
                       SumSeq([k \in 1..Len(a) |-> a[k] * Limb(b, t + 1 - k)], 1, Len(a))]
             lo  == [t \in 1..n |-> col[t] % Base]
             mid == [t \in 1..n |-> (col[t] \div Base) % Base]
             hi  == [t \in 1..n |-> col[t] \div (Base * Base)]
         IN  NatAdd(NatAdd(lo, <<0>> \o mid), <<0, 0>> \o hi)

\* a * 10^k
NatShift10(a, k) ==
    IF a = <<>> \/ k = 0 THEN a
    ELSE IF Len(a) = 1 /\ k <= 4 THEN NatFromInt(a[1] * 10^k)
    ELSE LET p == 10^(k % 4)
             scaled == [j \in 1..Len(a) + 1 |->
                          ((Limb(a, j) * p) % Base) + ((Limb(a, j - 1) * p) \div Base)]
         IN  NatNorm([j \in 1..k \div 4 |-> 0] \o scaled)

\* floor(a / 10^k)
NatDrop10(a, k) ==
    LET w == k \div 4
        p == 10^(k % 4)
    IN  IF k = 0 THEN a
        ELSE IF Len(a) <= w THEN <<>>
        ELSE IF Len(a) <= 2 THEN NatFromInt(NatToInt(a) \div 10^k)
        ELSE NatNorm([j \in 1..Len(a) - w |->
                        (Limb(a, j + w) \div p)
                            + ((Limb(a, j + w + 1) % p) * (Base \div p))])

\* the number of zeros that end the decimal digits of a # 0
TrailingZeros(a) ==
    LET k == CHOOSE j \in 1..Len(a) : a[j] # 0 /\ \A l \in 1..j - 1 : a[l] = 0
        r == CHOOSE z \in 0..3 : a[k] % (10^z) = 0 /\ a[k] % (10^(z + 1)) # 0
    IN  4 * (k - 1) + r

(***************************************************************************)
(* Finite decimals: [neg, m, e] is (-1)^neg * m * 10^e, kept canonical     *)
(* (m not divisible by ten; zero is [FALSE, <<>>, 0]) so that equal values *)
(* are equal records.                                                      *)
(***************************************************************************)
DZero == [neg |-> FALSE, m |-> <<>>, e |-> 0]

DNorm(neg, m, e) ==
    IF m = <<>> THEN DZero
    ELSE LET z == TrailingZeros(m)
         IN  [neg |-> neg, m |-> NatDrop10(m, z), e |-> e + z]

\* the decimal n * 10^e of an integer n
Dec(n, e) == DNorm(n < 0, NatFromInt(IF n < 0 THEN -n ELSE n), e)

DNeg(a) == IF a.m = <<>> THEN a ELSE [a EXCEPT !.neg = ~a.neg]

DAbs(a) == [a EXCEPT !.neg = FALSE]

DAdd(a, b) ==
    LET e  == IF a.e < b.e THEN a.e ELSE b.e
        ma == NatShift10(a.m, a.e - e)
        mb == NatShift10(b.m, b.e - e)
    IN  IF a.neg = b.neg THEN DNorm(a.neg, NatAdd(ma, mb), e)
        ELSE IF NatCmp(ma, mb) >= 0 THEN DNorm(a.neg, NatSub(ma, mb), e)
        ELSE DNorm(b.neg, NatSub(mb, ma), e)

DSub(a, b) == DAdd(a, DNeg(b))

DMul(a, b) == DNorm(a.neg # b.neg, NatMul(a.m, b.m), a.e + b.e)

DSign(a) == IF a.m = <<>> THEN 0 ELSE IF a.neg THEN -1 ELSE 1

DLe(a, b) == DSign(DSub(a, b)) <= 0

DLt(a, b) == DSign(DSub(a, b)) < 0

DMax(a, b) == IF DLt(a, b) THEN b ELSE a

\* the integer part, rounded toward zero, as an integer (f32::trunc)
DTruncInt(a) ==
    LET mag == IF a.e >= 0 THEN NatShift10(a.m, a.e) ELSE NatDrop10(a.m, -a.e)
    IN  IF a.neg THEN -NatToInt(mag) ELSE NatToInt(mag)

\* f32::fract: self - self.trunc(), which has the sign of self
DFract(a) == DSub(a, Dec(DTruncInt(a), 0))

\* f32::round of a >= 0: the nearest whole number, halves away from zero
RoundInt(a) == DTruncInt(DAdd(a, Dec(5, -1)))

\* `as usize` of a float: truncation toward zero, negative values saturate to 0
AsUsize(a) == IF a.neg THEN 0 ELSE DTruncInt(a)

\* a / d for a divisor d whose mantissa is a single limb dividing 10^8
\* (1000.0, 16000.0, 8000.0): the quotient is again a finite decimal
DDivExact(a, d) ==
    LET dm == NatToInt(d.m)
        k  == CHOOSE j \in 0..8 : (10^j) % dm = 0
    IN  DMul(a, DNorm(d.neg, NatFromInt((10^k) \div dm), -(k + d.e)))

(***************************************************************************)
(* State.  The arguments of one engine invocation (constant during the     *)
(* run), the locals of its loop, and the loop position.                    *)
(***************************************************************************)
VARIABLES
    engine,        \* "delay" (apply_delay_effect) or "chorus" (apply_chorus_effect)
    input,         \* input: &[f32]
    sr,            \* sr: f32
    wet,           \* wet: f32
    delay_ms,      \* delay_ms: f32
    decay_time_s,  \* decay_time_s: f32
    lowpass,       \* lowpass: bool (delay engine)
    rate_hz,       \* rate_hz: f32 (chorus engine)
    depth_ms,      \* depth_ms: f32 (chorus engine)
    feedback,      \* let feedback
    dry,           \* let dry
    base_delay_samples, \* let base_delay_samples (chorus engine)
    depth_samples, \* let depth_samples (chorus engine)
    phase_inc,     \* let phase_inc, in quarter turns (chorus engine)
    delay_line,    \* let mut delay_line
    output,        \* let mut output
    write_pos,     \* let mut write_pos
    prev_lp,       \* let mut prev_lp (delay engine)
    phase,         \* let mut phase, in quarter turns (units of pi/2) (chorus engine)
    i,             \* number of loop iterations done
    pc,            \* "loop" while iterating, "done" after `output` is returned
    effect,        \* args.effect
    tree,          \* the entries WalkDir yields for args.input_dir, in its order
    out_dir_ok,    \* whether fs::create_dir_all(&args.output_dir) succeeds
    out_dir_created, \* the output directory has been created
    pos,           \* number of entries taken from the walk
    opened,        \* entries on which WavReader::open was called
    decoded,       \* entries whose samples were collected
    created,       \* entries whose output file was created
    finalized,     \* entries whose output file was written and finalized
    result,        \* "running", "ok", or the error main returns
    bpc            \* position in main: "start", "walk", "exit"; "idle" outside a batch run

vars == <<engine, input, sr, wet, delay_ms, decay_time_s, lowpass, rate_hz,
          depth_ms, feedback, dry, base_delay_samples, depth_samples, phase_inc,
          delay_line, output, write_pos, prev_lp, phase, i, pc,
          effect, tree, out_dir_ok, out_dir_created, pos, opened, decoded, created,
          finalized, result, bpc>>

batch == <<effect, tree, out_dir_ok, out_dir_created, pos, opened, decoded, created,
           finalized, result, bpc>>

locals == <<delay_line, output, write_pos, prev_lp, phase, i, pc>>

\* the arguments and the locals that are never assigned again
args == <<engine, input, sr, wet, delay_ms, decay_time_s, lowpass, rate_hz, depth_ms,
          feedback, dry, base_delay_samples, depth_samples, phase_inc>>

(***************************************************************************)
(* Bounds of the model.                                                    *)
(***************************************************************************)
\* longest input buffer of the exhaustive runs
MaxLen == 3
\* exponents of powf are taken among the half-integers -MaxHalfExp/2 .. MaxHalfExp/2
MaxHalfExp == 6
\* echo periods followed after an impulse
NumPeriods == 10
\* longest run of silence before the impulse
MaxLead == 1
\* most entries in the walked tree
MaxFiles == 3

One == Dec(1, 0)

Clamp(x, lo, hi) == IF DLt(x, lo) THEN lo ELSE IF DLt(hi, x) THEN hi ELSE x

(***************************************************************************)
(* 10f32.powf(x) for x = n/2: exactly 10^(n/2) for even n; for odd n the   *)
(* value is irrational and is given to four significant digits,            *)
(* sqrt(10) = 3.162.                                                       *)
(***************************************************************************)
Pow10Half(n) ==
    IF n % 2 = 0 THEN Dec(1, n \div 2)
    ELSE Dec(3162, ((n - 1) \div 2) - 3)

\* delay_s = delay_ms / 1000.0
DelayS(dms) == DDivExact(dms, Dec(1000, 0))

\* whether -3.0 * delay_s / decay_time_s is a half-integer n/2 within the bound
IsHalfExp(dms, dts, n) == DMul(Dec(n, 0), dts) = DMul(Dec(-6, 0), DelayS(dms))

HasExponent(dms, dts) ==
    dts = DZero \/ \E n \in -MaxHalfExp..MaxHalfExp : IsHalfExp(dms, dts, n)

\* 10f32.powf(-3.0 * delay_s / decay_time_s); for decay_time_s = 0.0 and
\* delay_s > 0 the exponent is -inf and powf gives 0.0
PowDecay(dms, dts) ==
    IF dts = DZero THEN DZero
    ELSE Pow10Half(CHOOSE n \in -MaxHalfExp..MaxHalfExp : IsHalfExp(dms, dts, n))

\* (delay_ms * sr / 1000.0).max(1.0)
DelaySamplesF(dms, s) == DMax(DDivExact(DMul(dms, s), Dec(1000, 0)), One)

(***************************************************************************)
(* apply_delay_effect                                                      *)
(***************************************************************************)
\* faulty variant: the length rounded to the nearest sample instead of truncated
DelaySamplesRounded(dms, s) == RoundInt(DelaySamplesF(dms, s))

\* let delay_samples = (delay_ms * sr / 1000.0).max(1.0) as usize
DelaySamples(dms, s) == AsUsize(DelaySamplesF(dms, s))

\* let feedback = 10f32.powf(-3.0 * delay_s / decay_time_s).clamp(0.0, 1.0)
DelayFeedback(dms, dts) == Clamp(PowDecay(dms, dts), DZero, One)

\* let dry = 1.0 - wet
Dry(w) == DSub(One, w)

\* let lp_coeff = 0.5f32
LpCoeff == Dec(5, -1)

\* vec![0.0f32; n]
Zeros(n) == [k \in 1..n |-> DZero]

\* faulty variant: the read position one sample ahead, a delay of delay_samples - 1
DelayReadPosOff(wp, n) == (wp - n + 1) % n

\* (write_pos as isize - delay_samples as isize).rem_euclid(delay_samples as isize)
DelayReadPos(wp, n) == (wp - n) % n

\* lp_coeff * feedback_val + (1.0 - lp_coeff) * prev_lp
LowpassOut(x, prev) == DAdd(DMul(LpCoeff, x), DMul(DSub(One, LpCoeff), prev))

\* faulty variant: the dry and wet gains exchanged
MixSwapped(d, w, inp, delayed) == DAdd(DMul(d, delayed), DMul(w, inp))

\* faulty variant: the dry gain added without the input sample
MixDryOffset(d, w, inp, delayed) == DAdd(d, DMul(w, delayed))

\* dry * inp + wet * delayed
Mix(d, w, inp, delayed) == DAdd(DMul(d, inp), DMul(w, delayed))

\* faulty variant: the write position advanced without wrapping
AdvanceNoWrap(wp, n) == wp + 1

\* (write_pos + 1) % capacity
Advance(wp, n) == (wp + 1) % n

\* faulty variant: the output allocated one sample too long
NewOutputOff(inp) == Zeros(Len(inp) + 1)

\* vec![0.0f32; input.len()]
NewOutput(inp) == Zeros(Len(inp))

\* the state after the declarations that precede the loop
DelayStart(inp, s, w, dms, dts, lp) ==
    /\ engine = "delay"
    /\ input = inp /\ sr = s /\ wet = w /\ delay_ms = dms /\ decay_time_s = dts
    /\ lowpass = lp
    /\ rate_hz = DZero /\ depth_ms = DZero
    /\ feedback = DelayFeedback(dms, dts)
    /\ dry = Dry(w)
    /\ base_delay_samples = DZero /\ depth_samples = DZero /\ phase_inc = 0
    /\ delay_line = Zeros(DelaySamples(dms, s))
    /\ output = NewOutput(inp)
    /\ write_pos = 0
    /\ prev_lp = DZero
    /\ phase = 0
    /\ i = 0
    /\ pc = "loop"

\* one iteration of `for (i, &inp) in input.iter().enumerate()`
DelayFrame ==
    /\ engine = "delay" /\ pc = "loop" /\ i < Len(input)
    /\ LET inp          == input[i + 1]
           n            == Len(delay_line)
           read_pos     == DelayReadPos(write_pos, n)
           delayed      == delay_line[read_pos + 1]
           lp_out       == LowpassOut(delayed, prev_lp)
           feedback_val == IF lowpass THEN lp_out ELSE delayed
       IN  /\ output' = [output EXCEPT ![i + 1] = Mix(dry, wet, inp, delayed)]
           /\ prev_lp' = IF lowpass THEN lp_out ELSE prev_lp
           /\ delay_line' = [delay_line EXCEPT
                               ![write_pos + 1] = DAdd(inp, DMul(feedback, feedback_val))]
           /\ write_pos' = Advance(write_pos, n)
    /\ i' = i + 1
    /\ UNCHANGED <<args, phase, pc, batch>>

(***************************************************************************)
(* apply_chorus_effect                                                     *)
(***************************************************************************)
\* let depth_samples = (depth_ms * sr / 1000.0).max(1.0)
DepthSamples(dpm, s) == DMax(DDivExact(DMul(dpm, s), Dec(1000, 0)), One)

\* the clamp bound of the chorus feedback
ChorusMaxFeedback == Dec(3, -1)

\* faulty variant: the chorus feedback clamped like the delay engine's, to [0, 1]
ChorusFeedbackWide(dms, dts) == Clamp(PowDecay(dms, dts), DZero, One)

\* let feedback = 10f32.powf(-3.0 * delay_s / decay_time_s).clamp(0.0, 0.3)
ChorusFeedback(dms, dts) == Clamp(PowDecay(dms, dts), DZero, ChorusMaxFeedback)

\* let buffer_size = (base_delay_samples + depth_samples * 2.0) as usize
BufferSize(dms, dpm, s) ==
    AsUsize(DAdd(DelaySamplesF(dms, s), DMul(DepthSamples(dpm, s), Dec(2, 0))))

\* phase_inc = 2.0 * PI * rate_hz / sr, in quarter turns: 4 * rate_hz / sr
PhaseIncF(r, s) == DDivExact(DMul(Dec(4, 0), r), s)

PhaseInc(r, s) == DTruncInt(PhaseIncF(r, s))

\* phase.sin() at a whole number q of quarter turns
SinQ(q) == Dec(<<0, 1, 0, -1>>[(q % 4) + 1], 0)

\* let modulation = (phase.sin() + 1.0) * 0.5
Modulation(q) == DMul(DAdd(SinQ(q), One), Dec(5, -1))

\* let curr_delay = base_delay_samples + modulation * depth_samples
CurrDelay(q, base, depth) == DAdd(base, DMul(Modulation(q), depth))

\* the f32 remainder a % n for a whole n > 0: a - n * trunc(a / n), which keeps the
\* sign of a
FRem(a, n) ==
    LET t == DTruncInt(a)
        q == IF t < 0 THEN -((-t) \div n) ELSE t \div n
    IN  DSub(a, Dec(n * q, 0))

\* let read_pos_float = (write_pos as f32 - curr_delay) % (buffer_size as f32)
ReadPosFloat(wp, cd, n) == FRem(DSub(Dec(wp, 0), cd), n)

\* let read_pos = read_pos_float.max(0.0) as usize % buffer_size
ChorusReadPos(rpf, n) == AsUsize(DMax(rpf, DZero)) % n

\* the linear interpolation of the delay line at read_pos_float
ChorusDelayed(dl, rpf) ==
    LET n        == Len(dl)
        read_pos == ChorusReadPos(rpf, n)
        frac     == DFract(rpf)
    IN  IF frac = DZero THEN dl[read_pos + 1]
        ELSE LET pos1 == read_pos
                 pos2 == (pos1 + 1) % n
             IN  DAdd(DMul(dl[pos1 + 1], DSub(One, frac)), DMul(dl[pos2 + 1], frac))

\* phase += phase_inc; if phase >= 2.0 * PI { phase -= 2.0 * PI }
NextPhase(q, inc) == IF q + inc >= 4 THEN q + inc - 4 ELSE q + inc

ChorusStart(inp, s, w, dms, dts, r, dpm) ==
    /\ engine = "chorus"
    /\ input = inp /\ sr = s /\ wet = w /\ delay_ms = dms /\ decay_time_s = dts
    /\ lowpass = FALSE
    /\ rate_hz = r /\ depth_ms = dpm
    /\ feedback = ChorusFeedback(dms, dts)
    /\ dry = Dry(w)
    /\ base_delay_samples = DelaySamplesF(dms, s)
    /\ depth_samples = DepthSamples(dpm, s)
    /\ phase_inc = PhaseInc(r, s)
    /\ delay_line = Zeros(BufferSize(dms, dpm, s))
    /\ output = NewOutput(inp)
    /\ write_pos = 0
    /\ prev_lp = DZero
    /\ phase = 0
    /\ i = 0
    /\ pc = "loop"

\* one iteration of `for (i, &inp) in input.iter().enumerate()`
ChorusFrame ==
    /\ engine = "chorus" /\ pc = "loop" /\ i < Len(input)
    /\ LET inp        == input[i + 1]
           n          == Len(delay_line)
           curr_delay == CurrDelay(phase, base_delay_samples, depth_samples)
           rpf        == ReadPosFloat(write_pos, curr_delay, n)
           delayed    == ChorusDelayed(delay_line, rpf)
       IN  /\ output' = [output EXCEPT ![i + 1] = Mix(dry, wet, inp, delayed)]
           /\ delay_line' = [delay_line EXCEPT
                               ![write_pos + 1] = DAdd(inp, DMul(feedback, delayed))]
           /\ write_pos' = Advance(write_pos, n)
    /\ phase' = NextPhase(phase, phase_inc)
    /\ i' = i + 1
    /\ UNCHANGED <<args, prev_lp, pc, batch>>

\* the loop is over: `output` is returned
Return ==
    /\ pc = "loop" /\ i = Len(input)
    /\ pc' = "done"
    /\ UNCHANGED <<args, delay_line, output, write_pos, prev_lp, phase, i, batch>>

(***************************************************************************)
(* main and process_file.  An entry of the walk is a record: kind is       *)
(* "wav" (a file with extension wav), "other" (a directory or another      *)
(* file) or "walk_error" (the walk yields Err); a wav entry carries its    *)
(* header and the first I/O step that fails on it: "open" (WavReader::open)*)
(* "read" (collecting the samples), "create" (create_dir_all of the parent *)
(* or WavWriter::create), "write" (write_sample or finalize), or "none".   *)
(***************************************************************************)
KnownEffects == {"echo", "reverb", "chorus"}

\* faulty variant: a file of the wrong format is skipped instead of failing the run
ProcessFileSkip(f, eff) ==
    LET at(r, dec, cre, fin) ==
            [result |-> r, decoded |-> dec, created |-> cre, finalized |-> fin]
    IN  IF f.io = "open" THEN at("io", FALSE, FALSE, FALSE)
        ELSE IF f.channels # 1 \/ f.sample_rate # 16000 \/ f.bits_per_sample # 16
        THEN at("ok", FALSE, FALSE, FALSE)
        ELSE IF f.io = "read" THEN at("io", FALSE, FALSE, FALSE)
        ELSE IF eff \notin KnownEffects THEN at("unknown_effect", TRUE, FALSE, FALSE)
        ELSE IF f.io = "create" THEN at("io", TRUE, FALSE, FALSE)
        ELSE IF f.io = "write" THEN at("io", TRUE, TRUE, FALSE)
        ELSE at("ok", TRUE, TRUE, TRUE)

\* process_file: the error it returns ("ok" for Ok(())) and how far it got
ProcessFile(f, eff) ==
    LET at(r, dec, cre, fin) ==
            [result |-> r, decoded |-> dec, created |-> cre, finalized |-> fin]
    IN  IF f.io = "open" THEN at("io", FALSE, FALSE, FALSE)
        ELSE IF f.channels # 1 THEN at("mono", FALSE, FALSE, FALSE)
        ELSE IF f.sample_rate # 16000 THEN at("rate", FALSE, FALSE, FALSE)
        ELSE IF f.bits_per_sample # 16 THEN at("bits", FALSE, FALSE, FALSE)
        ELSE IF f.io = "read" THEN at("io", FALSE, FALSE, FALSE)
        ELSE IF eff \notin KnownEffects THEN at("unknown_effect", TRUE, FALSE, FALSE)
        ELSE IF f.io = "create" THEN at("io", TRUE, FALSE, FALSE)
        ELSE IF f.io = "write" THEN at("io", TRUE, TRUE, FALSE)
        ELSE at("ok", TRUE, TRUE, TRUE)

\* fs::create_dir_all(&args.output_dir)?
CreateOutputDir ==
    /\ bpc = "start"
    /\ IF out_dir_ok
       THEN out_dir_created' = TRUE /\ bpc' = "walk" /\ result' = result
       ELSE out_dir_created' = FALSE /\ bpc' = "exit" /\ result' = "io"
    /\ UNCHANGED <<effect, tree, out_dir_ok, pos, opened, decoded, created, finalized>>
    /\ UNCHANGED <<args, locals>>

\* one iteration of `for entry in WalkDir::new(&args.input_dir)`
WalkEntry ==
    /\ bpc = "walk" /\ pos < Len(tree)
    /\ pos' = pos + 1
    /\ LET f == tree[pos + 1]
           r == ProcessFile(f, effect)
       IN  IF f.kind = "walk_error"
           THEN /\ result' = "walk" /\ bpc' = "exit"
                /\ UNCHANGED <<opened, decoded, created, finalized>>
           ELSE IF f.kind = "other"
           THEN UNCHANGED <<result, bpc, opened, decoded, created, finalized>>
           ELSE /\ opened' = opened \cup {pos + 1}
                /\ decoded' = IF r.decoded THEN decoded \cup {pos + 1} ELSE decoded
                /\ created' = IF r.created THEN created \cup {pos + 1} ELSE created
                /\ finalized' = IF r.finalized THEN finalized \cup {pos + 1} ELSE finalized
                /\ IF r.result = "ok"
                   THEN UNCHANGED <<result, bpc>>
                   ELSE result' = r.result /\ bpc' = "exit"
    /\ UNCHANGED <<effect, tree, out_dir_ok, out_dir_created>>
    /\ UNCHANGED <<args, locals>>

\* the walk is over: Ok(())
Finish ==
    /\ bpc = "walk" /\ pos = Len(tree)
    /\ result' = "ok" /\ bpc' = "exit"
    /\ UNCHANGED <<effect, tree, out_dir_ok, out_dir_created, pos, opened, decoded,
                   created, finalized>>
    /\ UNCHANGED <<args, locals>>

(***************************************************************************)
(* Inputs.                                                                 *)
(***************************************************************************)
Samples == {DZero, One, Dec(-5, -1)}

Buffers(n) == UNION {[1..k -> Samples] : k \in 0..n}

\* a single 1.0 after k samples of silence, n samples in all
Impulse(k, n) == [j \in 1..n |-> IF j = k + 1 THEN One ELSE DZero]

Silence(n) == [j \in 1..n |-> DZero]

\* process_file passes 16000; the delay engine is also run at 8000
SampleRates == {Dec(16000, 0), Dec(8000, 0)}

ChorusSampleRates == {Dec(16000, 0)}

WetValues == {DZero, Dec(5, -1), One}

\* 0.8, 1.6, 2.4 and 3.2 samples at 16 kHz, half as many at 8 kHz
DelayMsValues == {Dec(5, -2), Dec(1, -1), Dec(15, -2), Dec(2, -1)}

DecayTimes == {Dec(3, -4), Dec(-3, -4)}

RateValues == {Dec(4000, 0), Dec(12000, 0)}

\* 0.8 and 1.6 samples at 16 kHz
DepthMsValues == {Dec(5, -2), Dec(1, -1)}

Timing == {t \in DelayMsValues \X DecayTimes : HasExponent(t[1], t[2])}

\* no batch run
BatchIdle ==
    /\ effect = "echo" /\ tree = <<>> /\ out_dir_ok = TRUE /\ out_dir_created = FALSE
    /\ pos = 0 /\ opened = {} /\ decoded = {} /\ created = {} /\ finalized = {}
    /\ result = "running" /\ bpc = "idle"

\* no engine invocation
EngineIdle ==
    /\ engine = "none"
    /\ input = <<>> /\ sr = DZero /\ wet = DZero /\ delay_ms = DZero
    /\ decay_time_s = DZero /\ lowpass = FALSE /\ rate_hz = DZero /\ depth_ms = DZero
    /\ feedback = DZero /\ dry = DZero
    /\ base_delay_samples = DZero /\ depth_samples = DZero /\ phase_inc = 0
    /\ delay_line = <<>> /\ output = <<>> /\ write_pos = 0 /\ prev_lp = DZero
    /\ phase = 0 /\ i = 0 /\ pc = "done"

\* every buffer of at most MaxLen samples, through either engine
InitDelay ==
    \E inp \in Buffers(MaxLen), s \in SampleRates, w \in WetValues, t \in Timing,
       lp \in BOOLEAN :
        DelayStart(inp, s, w, t[1], t[2], lp)

InitChorus ==
    \E inp \in Buffers(MaxLen), s \in ChorusSampleRates, w \in WetValues, t \in Timing,
       r \in RateValues, dpm \in DepthMsValues :
        /\ DFract(PhaseIncF(r, s)) = DZero
        /\ ChorusStart(inp, s, w, t[1], t[2], r, dpm)

Init == (InitDelay \/ InitChorus) /\ BatchIdle

Next == DelayFrame \/ ChorusFrame \/ Return

Spec == Init /\ [][Next]_vars

\* long buffers: an impulse followed by NumPeriods + 1 whole echo periods, or as
\* many samples of silence
LongLen(k, d) == k + (NumPeriods + 2) * d

LongBuffers(d) ==
    {Impulse(k, LongLen(k, d)) : k \in 0..MaxLead} \cup {Silence(LongLen(MaxLead, d))}

InitLongDelay ==
    \E s \in SampleRates, w \in WetValues, t \in Timing, lp \in BOOLEAN :
        \E inp \in LongBuffers(DelaySamples(t[1], s)) :
            DelayStart(inp, s, w, t[1], t[2], lp)

InitLongChorus ==
    \E s \in ChorusSampleRates, w \in WetValues, t \in Timing, r \in RateValues,
       dpm \in DepthMsValues :
        \E inp \in LongBuffers(1) :
            /\ DFract(PhaseIncF(r, s)) = DZero
            /\ ChorusStart(inp, s, w, t[1], t[2], r, dpm)

InitLong == (InitLongDelay \/ InitLongChorus) /\ BatchIdle

SpecLong == InitLong /\ [][Next]_vars

\* the batch driver
WavEntry(ch, rate, bits, io) ==
    [kind |-> "wav", channels |-> ch, sample_rate |-> rate, bits_per_sample |-> bits,
     io |-> io]

Entries ==
    {WavEntry(1, 16000, 16, io) : io \in {"none", "open", "read", "create", "write"}}
    \cup {WavEntry(2, 16000, 16, "none"), WavEntry(1, 44100, 16, "none"),
          WavEntry(1, 16000, 24, "none")}
    \cup {[kind |-> k, channels |-> 0, sample_rate |-> 0, bits_per_sample |-> 0,
           io |-> "none"] : k \in {"other", "walk_error"}}

Trees == UNION {[1..k -> Entries] : k \in 0..MaxFiles}

EffectNames == KnownEffects \cup {"flanger"}

InitBatch ==
    /\ EngineIdle
    /\ effect \in EffectNames
    /\ tree \in Trees
    /\ out_dir_ok \in BOOLEAN
    /\ out_dir_created = FALSE
    /\ pos = 0 /\ opened = {} /\ decoded = {} /\ created = {} /\ finalized = {}
    /\ result = "running" /\ bpc = "start"

NextBatch == CreateOutputDir \/ WalkEntry \/ Finish

SpecBatch == InitBatch /\ [][NextBatch]_vars

(***************************************************************************)
(* Properties.                                                             *)
(***************************************************************************)
Running == engine \in {"delay", "chorus"}

AllZero(q) == \A k \in DOMAIN q : q[k] = DZero

\* inp is 1.0 at 0-based index k and 0.0 elsewhere
IsImpulseAt(inp, k) == k < Len(inp) /\ inp = Impulse(k, Len(inp))

\* delay_ms * sr / 1000.0, the delay in samples before .max(1.0) and the cast
SamplesExact == DDivExact(DMul(delay_ms, sr), Dec(1000, 0))

\* C1: each engine returns a buffer as long as its input, the empty input included.
C1_LengthPreserved == Running => Len(output) = Len(input)

C1_Witness ==
    /\ engine = "chorus" /\ pc = "done"
    /\ Len(input) = MaxLen /\ Len(output) = MaxLen
    /\ output[MaxLen] # DZero

\* C2: in echo mode an impulse at index k gives output[k] = 1 - wet, silence before
\* it and between it and the first echo, and output[k + D] = wet, D being the
\* length of the delay line; delay_ms = 250 at 16000 Hz gives D = 4000.
C2_EchoTiming ==
    /\ DelaySamples(Dec(250, 0), Dec(16000, 0)) = 4000
    /\ (engine = "delay" /\ ~lowpass /\ pc = "done") =>
         \A k \in 0..MaxLead + 1 :
            IsImpulseAt(input, k) =>
                LET d == Len(delay_line)
                IN  /\ output[k + 1] = DSub(One, wet)
                    /\ \A j \in 0..Len(input) - 1 :
                          (j < k \/ (k < j /\ j < k + d)) => output[j + 1] = DZero
                    /\ k + d < Len(input) => output[k + d + 1] = wet

C2_Witness ==
    /\ engine = "delay" /\ ~lowpass /\ pc = "done"
    /\ IsImpulseAt(input, 1)
    /\ Len(delay_line) = 3
    /\ wet = Dec(5, -1)
    /\ output[2] = Dec(5, -1) /\ output[3] = DZero /\ output[4] = DZero
    /\ output[5] = Dec(5, -1)

\* C3: with wet = 0 every frame processed so far has output[j] = input[j], in both
\* engines.
C3_DryIdentity ==
    (Running /\ wet = DZero) => \A j \in 1..i : output[j] = input[j]

C3_Witness ==
    /\ engine = "chorus" /\ wet = DZero /\ pc = "done"
    /\ Len(input) = MaxLen
    /\ input[MaxLen] = DZero /\ output[MaxLen] = DZero
    /\ \E k \in DOMAIN delay_line : delay_line[k] # DZero
    /\ feedback # DZero

\* C4: on an all-zero input the delay line, the lowpass state and the output are
\* all zero after any number of frames, in both engines.
C4_Silence ==
    (Running /\ AllZero(input)) =>
        AllZero(delay_line) /\ prev_lp = DZero /\ AllZero(output)

C4_Witness ==
    /\ engine = "delay" /\ lowpass /\ pc = "done"
    /\ Len(input) > NumPeriods /\ AllZero(input)
    /\ wet = One /\ feedback = One
    /\ AllZero(output)

\* the largest |output[j]| over echo period n after an impulse at k: the d frames
\* from k + n * d on
PeriodPeak(n, k, d) ==
    LET amps == {DAbs(output[j + 1]) : j \in (k + n * d)..(k + (n + 1) * d - 1)}
    IN  CHOOSE x \in amps : \A y \in amps : DLe(y, x)

\* C5: for decay_time_s > 0 and delay_ms > 0 the feedback gain is in [0, 1] in the
\* delay engine and in [0, 0.3] in the chorus engine, and after an impulse the peak
\* of echo period n + 1 is at most the peak of echo period n, for the NumPeriods
\* periods n = 1 .. NumPeriods that follow the impulse's own period.
C5_FeedbackStable ==
    (Running /\ DLt(DZero, decay_time_s) /\ DLt(DZero, delay_ms)) =>
        /\ DLe(DZero, feedback)
        /\ engine = "delay" => DLe(feedback, One)
        /\ engine = "chorus" => DLe(feedback, Dec(3, -1))
        /\ (engine = "delay" /\ pc = "done") =>
             \A k \in 0..MaxLead + 1 :
                IsImpulseAt(input, k) =>
                    \A n \in 1..NumPeriods :
                        DLe(PeriodPeak(n + 1, k, Len(delay_line)),
                            PeriodPeak(n, k, Len(delay_line)))

C5_Witness ==
    /\ engine = "delay" /\ lowpass /\ pc = "done"
    /\ DLt(DZero, decay_time_s)
    /\ IsImpulseAt(input, 1)
    /\ Len(delay_line) = 2
    /\ DLt(PeriodPeak(2, 1, 2), PeriodPeak(1, 1, 2))
    /\ DLt(DZero, PeriodPeak(NumPeriods + 1, 1, 2))
    /\ DLt(PeriodPeak(NumPeriods + 1, 1, 2), PeriodPeak(NumPeriods, 1, 2))

\* a reduced by floor modulo into [0, n), for a whole n > 0
EuclidRem(a, n) ==
    LET r == FRem(a, n) IN IF r.neg THEN DAdd(r, Dec(n, 0)) ELSE r

\* floor of a decimal
FloorInt(a) ==
    LET t == DTruncInt(a) IN IF a.neg /\ Dec(t, 0) # a THEN t - 1 ELSE t

\* C8: at every frame of the chorus loop the read position is write_pos - curr_delay
\* reduced by floor modulo into [0, buffer_size), pos1 is its floor, pos2 the next
\* index, frac its fractional part in [0, 1), and the delayed sample is
\* delay_line[pos1] * (1 - frac) + delay_line[pos2] * frac.
C8_EuclideanRead ==
    (engine = "chorus" /\ pc = "loop" /\ i < Len(input)) =>
        LET n     == Len(delay_line)
            cd    == CurrDelay(phase, base_delay_samples, depth_samples)
            want  == EuclidRem(DSub(Dec(write_pos, 0), cd), n)
            rpf   == ReadPosFloat(write_pos, cd, n)
            pos1  == FloorInt(want)
            pos2  == (pos1 + 1) % n
            frac  == DSub(want, Dec(pos1, 0))
        IN  /\ rpf = want
            /\ DLe(DZero, rpf) /\ DLt(rpf, Dec(n, 0))
            /\ ChorusReadPos(rpf, n) = pos1
            /\ DLe(DZero, DFract(rpf)) /\ DLt(DFract(rpf), One)
            /\ ChorusDelayed(delay_line, rpf)
                 = DAdd(DMul(delay_line[pos1 + 1], DSub(One, frac)),
                        DMul(delay_line[pos2 + 1], frac))

\* C9 as stated: the delay line of the delay engine has
\* max(1, round(delay_ms * sr / 1000)) samples.
C9_RoundedLength ==
    engine = "delay" =>
        Len(delay_line) = (IF RoundInt(SamplesExact) < 1 THEN 1 ELSE RoundInt(SamplesExact))

\* C9 amended: the delay line of the delay engine has floor(delay_ms * sr / 1000)
\* samples, and 1 sample when that is below 1: its length n is at least 1 and
\* n <= delay_ms * sr / 1000 < n + 1 whenever delay_ms * sr / 1000 >= 1.
C9_TruncatedLength ==
    engine = "delay" =>
        LET n == Len(delay_line)
        IN  /\ n >= 1
            /\ DLt(SamplesExact, One) => n = 1
            /\ DLe(One, SamplesExact) =>
                 DLe(Dec(n, 0), SamplesExact) /\ DLt(SamplesExact, Dec(n + 1, 0))

C9_Witness ==
    /\ engine = "delay" /\ pc = "done"
    /\ SamplesExact = Dec(16, -1)
    /\ Len(delay_line) = 1

\* the capacity the arguments give the delay line
Capacity ==
    IF engine = "delay" THEN DelaySamples(delay_ms, sr)
    ELSE BufferSize(delay_ms, depth_ms, sr)

\* C10: in both engines, at every frame: the delay line has the capacity computed
\* from the arguments, at least 1; write_pos is the number of frames done modulo
\* the capacity; every index used to read the delay line is in [0, capacity).
C10_IndicesInBounds ==
    Running =>
        LET n == Len(delay_line)
        IN  /\ n >= 1 /\ n = Capacity
            /\ 0 <= write_pos /\ write_pos < n
            /\ write_pos = i % n
            /\ (engine = "delay" /\ i < Len(input)) =>
                 DelayReadPos(write_pos, n) \in 0..n - 1
            /\ (engine = "chorus" /\ i < Len(input)) =>
                 LET rpf  == ReadPosFloat(write_pos,
                                 CurrDelay(phase, base_delay_samples, depth_samples), n)
                     pos1 == ChorusReadPos(rpf, n)
                 IN  pos1 \in 0..n - 1 /\ ((pos1 + 1) % n) \in 0..n - 1

C10_Witness ==
    /\ engine = "chorus" /\ pc = "loop" /\ i < Len(input)
    /\ i > Len(delay_line)
    /\ write_pos = 1
    /\ DFract(ReadPosFloat(write_pos,
                  CurrDelay(phase, base_delay_samples, depth_samples),
                  Len(delay_line))) # DZero

(***************************************************************************)
(* Properties of the batch run.                                            *)
(***************************************************************************)
Failed == result \notin {"running", "ok"}

\* an entry that cannot be handled: the walk fails on it, or it is a wav file that
\* has the wrong format, fails in I/O, or is to get an unknown effect
Offending(f) ==
    \/ f.kind = "walk_error"
    \/ /\ f.kind = "wav"
       /\ \/ f.channels # 1 \/ f.sample_rate # 16000 \/ f.bits_per_sample # 16
          \/ f.io # "none"
          \/ effect \notin KnownEffects

ValidFormat(f) == f.channels = 1 /\ f.sample_rate = 16000 /\ f.bits_per_sample = 16

\* C6: with an unknown effect the run ends with the unknown-effect error before any
\* input file is opened or decoded and before anything is created under the output
\* directory, whatever the input tree.
C6_UnknownEffectFirst ==
    (bpc # "idle" /\ effect \notin KnownEffects) =>
        /\ opened = {} /\ decoded = {}
        /\ ~out_dir_created /\ created = {}
        /\ bpc = "exit" => result = "unknown_effect"

\* C7: entries are handled one at a time in traversal order and the first offending
\* one ends the run with an error: no offending entry is passed over, nothing after
\* it is opened or written, the run ends Ok only if no entry offends, and a file
\* rejected by format validation gets no output file.
C7_FirstErrorFatal ==
    bpc # "idle" =>
        /\ opened \subseteq 1..pos /\ created \subseteq opened /\ finalized \subseteq created
        /\ \A j \in 1..pos - 1 : ~Offending(tree[j])
        /\ \A j \in 1..pos : Offending(tree[j]) => (Failed /\ bpc = "exit")
        /\ (Failed /\ pos >= 1) => Offending(tree[pos])
        /\ result = "ok" => (pos = Len(tree) /\ \A j \in 1..pos : ~Offending(tree[j]))
        /\ \A j \in 1..pos :
              (tree[j].kind = "wav" /\ ~Offending(tree[j])) => j \in finalized
        /\ \A j \in created : ValidFormat(tree[j])
        /\ (bpc = "exit" /\ pos >= 1 /\ tree[pos].kind = "wav" /\ Failed) =>
              result = (IF tree[pos].io = "open" THEN "io"
                        ELSE IF tree[pos].channels # 1 THEN "mono"
                        ELSE IF tree[pos].sample_rate # 16000 THEN "rate"
                        ELSE IF tree[pos].bits_per_sample # 16 THEN "bits"
                        ELSE IF tree[pos].io = "read" THEN "io"
                        ELSE IF effect \notin KnownEffects THEN "unknown_effect"
                        ELSE "io")

C7_Witness ==
    /\ bpc = "exit" /\ result = "mono"
    /\ pos = 2 /\ Len(tree) = 3
    /\ tree[3].kind = "wav"
    /\ finalized = {1} /\ opened = {1, 2} /\ created = {1}
====
